---- MODULE Spec2Model ----
(***************************************************************************)
(* Model of homework.py: the fitness tracker's workout classes (Training,  *)
(* Running, SportsWalking, Swimming), the InfoMessage report, the          *)
(* read_package factory and the script's loop over the sensor packages.    *)
(*                                                                         *)
(* A Python value is a record [t, n, d]: t is the name of its type and,    *)
(* for a number, n/d is its value as a fraction in lowest terms (d > 0).   *)
(* Floats are modelled by their exact rational value, so the model does    *)
(* not show the binary rounding of IEEE doubles (relative error 2^-53).    *)
(* A raised exception is carried as a value whose t is the exception's     *)
(* class; every operator propagates the exception of its leftmost failing  *)
(* operand, as Python's left-to-right evaluation does.                     *)
(***************************************************************************)
EXTENDS Integers, Sequences, FiniteSets, TLC

VARIABLES pc, n_read, workout_type, data, training, raised, stdout, called, ret

vars == <<pc, n_read, workout_type, data, training, raised, stdout, called, ret>>

(***************************************************************************)
(* Python values and arithmetic                                            *)
(***************************************************************************)
Abs(x) == IF x < 0 THEN -x ELSE x

RECURSIVE GCD(_, _)
GCD(a, b) == IF b = 0 THEN a ELSE GCD(b, a % b)

\* The value of type t equal to num/den, den # 0, in lowest terms.
Num(t, num, den) ==
    LET s == IF den < 0 THEN -1 ELSE 1
        g == GCD(Abs(num), Abs(den))
    IN  [t |-> t, n |-> (s * num) \div g, d |-> (s * den) \div g]

PyInt(k) == [t |-> "int", n |-> k, d |-> 1]
PyFloat(num, den) == Num("float", num, den)
PyBool(b) == [t |-> "bool", n |-> IF b THEN 1 ELSE 0, d |-> 1]
\* A str object; no operation of the program depends on its characters.
Str == [t |-> "str", n |-> 0, d |-> 1]
None == [t |-> "NoneType", n |-> 0, d |-> 1]
\* A raised exception of class name; msg tells the raise sites apart.
Exc(name, msg) == [t |-> name, msg |-> msg]
NoExc == [t |-> "none", msg |-> ""]

ExceptionNames == {"TypeError", "ZeroDivisionError", "ValueError"}
IsExc(v) == v.t \in ExceptionNames
\* bool is a subclass of int: it takes part in arithmetic as 0 or 1.
IsNumber(v) == v.t \in {"int", "float", "bool"}
IsIntLike(v) == v.t \in {"int", "bool"}
ResultType(a, b) == IF a.t = "float" \/ b.t = "float" THEN "float" ELSE "int"

\* a * b
Mul(a, b) ==
    IF IsExc(a) THEN a
    ELSE IF IsExc(b) THEN b
    ELSE IF IsNumber(a) /\ IsNumber(b)
    THEN LET g1 == GCD(Abs(a.n), b.d)
             g2 == GCD(Abs(b.n), a.d)
         IN  Num(ResultType(a, b),
                 (a.n \div g1) * (b.n \div g2),
                 (a.d \div g2) * (b.d \div g1))
    \* sequence repetition: str * int and int * str give a str
    ELSE IF (a.t = "str" /\ IsIntLike(b)) \/ (IsIntLike(a) /\ b.t = "str")
    THEN Str
    ELSE Exc("TypeError", "unsupported operand type(s)")

\* a / b (true division: always a float)
Div(a, b) ==
    IF IsExc(a) THEN a
    ELSE IF IsExc(b) THEN b
    ELSE IF IsNumber(a) /\ IsNumber(b)
    THEN IF b.n = 0
         THEN Exc("ZeroDivisionError", "division by zero")
         ELSE LET s  == IF b.n < 0 THEN -1 ELSE 1
                  g1 == GCD(Abs(a.n), Abs(b.n))
                  g2 == GCD(b.d, a.d)
              IN  Num("float",
                      s * (a.n \div g1) * (b.d \div g2),
                      (a.d \div g2) * (Abs(b.n) \div g1))
    ELSE Exc("TypeError", "unsupported operand type(s)")

\* a + b
Add(a, b) ==
    IF IsExc(a) THEN a
    ELSE IF IsExc(b) THEN b
    ELSE IF IsNumber(a) /\ IsNumber(b)
    THEN LET g == GCD(a.d, b.d)
         IN  Num(ResultType(a, b),
                 a.n * (b.d \div g) + b.n * (a.d \div g),
                 (a.d \div g) * b.d)
    ELSE IF a.t = "str" /\ b.t = "str"
    THEN Str
    ELSE Exc("TypeError", "unsupported operand type(s)")

\* a ** 2
Pow2(a) ==
    IF IsExc(a) THEN a
    ELSE IF IsNumber(a) THEN Mul(a, a)
    ELSE Exc("TypeError", "unsupported operand type(s)")

\* '{:.3f}'.format(v): the number of thousandths printed, rounded half to
\* even; a str has no 'f' format (ValueError) and None has none (TypeError).
\* The three decimals are found by long division of v.n by v.d.
Format3(v) ==
    IF IsExc(v) THEN v
    ELSE IF IsNumber(v)
    THEN LET q0 == v.n \div v.d
             r0 == v.n % v.d
             r1 == (r0 * 10) % v.d
             r2 == (r1 * 10) % v.d
             r3 == (r2 * 10) % v.d
             q  == q0 * 1000 + ((r0 * 10) \div v.d) * 100
                     + ((r1 * 10) \div v.d) * 10 + ((r2 * 10) \div v.d)
         IN  PyInt(IF 2 * r3 > v.d \/ (2 * r3 = v.d /\ q % 2 = 1)
                   THEN q + 1 ELSE q)
    ELSE IF v.t = "str"
    THEN Exc("ValueError", "unknown format code 'f'")
    ELSE Exc("TypeError", "unsupported format string")

(***************************************************************************)
(* class Training and its subclasses                                       *)
(***************************************************************************)
M_IN_KM == 1000
MIN_IN_H == 60
CM_IN_M == 100
\* Mutant: the step of every workout is the swimmer's stroke.
Mutant_LEN_STEP_stroke == PyFloat(138, 100)
Training_LEN_STEP == PyFloat(65, 100)
Swimming_LEN_STEP == PyFloat(138, 100)

\* self.LEN_STEP: the class attribute found by attribute lookup.
LEN_STEP(self) ==
    IF self.t = "Swimming" THEN Swimming_LEN_STEP ELSE Training_LEN_STEP

NoTraining == [t |-> "NoneType"]

Running_init(action, duration, weight) ==
    [t |-> "Running", action |-> action, duration |-> duration,
     weight |-> weight]

SportsWalking_init(action, duration, weight, height) ==
    [t |-> "SportsWalking", action |-> action, duration |-> duration,
     weight |-> weight, height |-> height]

Swimming_init(action, duration, weight, length_pool, count_pool) ==
    [t |-> "Swimming", action |-> action, duration |-> duration,
     weight |-> weight, length_pool |-> length_pool,
     count_pool |-> count_pool]

Training_get_distance(self) ==
    Div(Mul(self.action, LEN_STEP(self)), PyInt(M_IN_KM))

\* Mutant: the distance swum is the pool's length times the laps.
Mutant_Swimming_get_distance_pool(self) ==
    Div(Mul(self.length_pool, self.count_pool), PyInt(M_IN_KM))
Swimming_get_distance(self) ==
    Div(Mul(self.action, LEN_STEP(self)), PyInt(M_IN_KM))

get_distance(self) ==
    IF self.t = "Swimming"
    THEN Swimming_get_distance(self)
    ELSE Training_get_distance(self)

Training_get_mean_speed(self) ==
    Div(get_distance(self), self.duration)

\* Mutant: Swimming does not override get_mean_speed.
Mutant_Swimming_get_mean_speed_inherited(self) ==
    Div(get_distance(self), self.duration)
Swimming_get_mean_speed(self) ==
    Div(Div(Mul(self.length_pool, self.count_pool), PyInt(M_IN_KM)),
        self.duration)

get_mean_speed(self) ==
    IF self.t = "Swimming"
    THEN Swimming_get_mean_speed(self)
    ELSE Training_get_mean_speed(self)

Running_CALORIES_MEAN_SPEED_MULTIPLIER == 18
\* Mutant: the shift is subtracted, as in (18 * speed - 20).
Mutant_CALORIES_MEAN_SPEED_SHIFT_minus_20 == PyFloat(-20, 1)
Running_CALORIES_MEAN_SPEED_SHIFT == PyFloat(179, 100)

\* Mutant: the hours are not converted to minutes.
Mutant_Running_get_spent_calories_per_hour(self) ==
    Mul(Div(Mul(Add(Mul(PyInt(Running_CALORIES_MEAN_SPEED_MULTIPLIER),
                        get_mean_speed(self)),
                    Running_CALORIES_MEAN_SPEED_SHIFT),
                self.weight),
            PyInt(M_IN_KM)),
        self.duration)
Running_get_spent_calories(self) ==
    Mul(Mul(Div(Mul(Add(Mul(PyInt(Running_CALORIES_MEAN_SPEED_MULTIPLIER),
                            get_mean_speed(self)),
                        Running_CALORIES_MEAN_SPEED_SHIFT),
                    self.weight),
                PyInt(M_IN_KM)),
            self.duration),
        PyInt(MIN_IN_H))

SportsWalking_CALORIES_SPEED_HEIGHT_MULTIPLIER == PyFloat(29, 1000)
SportsWalking_CALORIES_WEIGHT_MULTIPLIER == PyFloat(35, 1000)
KMH_IN_MSEC == PyFloat(278, 1000)

SportsWalking_get_spent_calories(self) ==
    Mul(Mul(Add(Mul(SportsWalking_CALORIES_WEIGHT_MULTIPLIER, self.weight),
                Mul(Mul(Div(Pow2(Mul(get_mean_speed(self), KMH_IN_MSEC)),
                            Div(self.height, PyInt(CM_IN_M))),
                        SportsWalking_CALORIES_SPEED_HEIGHT_MULTIPLIER),
                    self.weight)),
            self.duration),
        PyInt(MIN_IN_H))

Swimming_CALORIES_WEIGHT_MULTIPLIER == 2
Swimming_CALORIES_MEAN_SPEED_SHIFT == PyFloat(11, 10)

Swimming_get_spent_calories(self) ==
    Mul(Mul(Mul(Add(get_mean_speed(self), Swimming_CALORIES_MEAN_SPEED_SHIFT),
                PyInt(Swimming_CALORIES_WEIGHT_MULTIPLIER)),
            self.weight),
        self.duration)

get_spent_calories(self) ==
    CASE self.t = "Running" -> Running_get_spent_calories(self)
      [] self.t = "SportsWalking" -> SportsWalking_get_spent_calories(self)
      [] self.t = "Swimming" -> Swimming_get_spent_calories(self)

(***************************************************************************)
(* class InfoMessage                                                       *)
(***************************************************************************)
InfoMessage(training_type, duration, distance, speed, calories) ==
    [t |-> "InfoMessage", training_type |-> training_type,
     duration |-> duration, distance |-> distance, speed |-> speed,
     calories |-> calories]

\* The arguments of a call are evaluated in order, each once; the first one
\* that raises ends the call.
InfoMessage_init(training_type, duration, distance, speed, calories) ==
    IF IsExc(distance) THEN distance
    ELSE IF IsExc(speed) THEN speed
    ELSE IF IsExc(calories) THEN calories
    ELSE InfoMessage(training_type, duration, distance, speed, calories)

show_training_info(self) ==
    InfoMessage_init(self.t, self.duration, get_distance(self),
                     get_mean_speed(self), get_spent_calories(self))

\* INFO.format(...): the line's text is fixed but for its five fields, so
\* the line is modelled by the fields as printed (numbers in thousandths).
INFO_format(training_type, duration, distance, speed, calories) ==
    IF IsExc(duration) THEN duration
    ELSE IF IsExc(distance) THEN distance
    ELSE IF IsExc(speed) THEN speed
    ELSE IF IsExc(calories) THEN calories
    ELSE [t |-> "str", training_type |-> training_type,
          duration |-> duration.n, distance |-> distance.n,
          speed |-> speed.n, calories |-> calories.n]

get_message(self) ==
    INFO_format(self.training_type, Format3(self.duration),
                Format3(self.distance), Format3(self.speed),
                Format3(self.calories))

\* print(info): str(info) is info.get_message().
Printed(info) == IF IsExc(info) THEN info ELSE get_message(info)

(***************************************************************************)
(* read_package                                                            *)
(***************************************************************************)
trainings ==
    [code \in {"SWM", "RUN", "WLK"} |->
        CASE code = "SWM" -> "Swimming"
          [] code = "RUN" -> "Running"
          [] code = "WLK" -> "SportsWalking"]

\* Mutant: the signature of the unbound __init__, which counts self.
Mutant_signature_with_self(cls) ==
    CASE cls = "Running" -> <<"self", "action", "duration", "weight">>
      [] cls = "SportsWalking" ->
            <<"self", "action", "duration", "weight", "height">>
      [] cls = "Swimming" ->
            <<"self", "action", "duration", "weight", "length_pool",
              "count_pool">>
\* inspect.signature(cls).parameters: the parameters of cls.__init__.
signature(cls) ==
    CASE cls = "Running" -> <<"action", "duration", "weight">>
      [] cls = "SportsWalking" -> <<"action", "duration", "weight", "height">>
      [] cls = "Swimming" ->
            <<"action", "duration", "weight", "length_pool", "count_pool">>

\* trainings[workout_type](*data), for data of the signature's length.
Construct(cls, args) ==
    CASE cls = "Running" -> Running_init(args[1], args[2], args[3])
      [] cls = "SportsWalking" ->
            SportsWalking_init(args[1], args[2], args[3], args[4])
      [] cls = "Swimming" ->
            Swimming_init(args[1], args[2], args[3], args[4], args[5])

\* The loop over data returns or raises in its first iteration, so only
\* data[1] is examined; type(True) is bool, which is neither int nor float.
CheckTypes(cls, args) ==
    IF Len(args) = 0 THEN None
    ELSE IF args[1].t = "int" \/ args[1].t = "float"
    THEN Construct(cls, args)
    ELSE Exc("TypeError", "unexpected data types")

\* Mutant: the values' types are checked before the code is looked up.
Mutant_read_package_types_first(wtype, args) ==
    IF Len(args) > 0 /\ args[1].t # "int" /\ args[1].t # "float"
    THEN Exc("TypeError", "unexpected data types")
    ELSE IF wtype \notin DOMAIN trainings
    THEN Exc("ValueError", "unexpected workout type")
    ELSE IF Len(signature(trainings[wtype])) # Len(args)
    THEN Exc("TypeError", "unexpected parameter count")
    ELSE CheckTypes(trainings[wtype], args)
read_package(wtype, args) ==
    IF wtype \notin DOMAIN trainings
    THEN Exc("ValueError", "unexpected workout type")
    ELSE IF Len(signature(trainings[wtype])) # Len(args)
    THEN Exc("TypeError", "unexpected parameter count")
    ELSE CheckTypes(trainings[wtype], args)

(***************************************************************************)
(* Inputs of the model                                                     *)
(***************************************************************************)
\* The script's loop reads at most MaxPackages packages, each with at most
\* MaxArgs values.
MaxPackages == 2
MaxArgs == 5

Codes == {"SWM", "RUN", "WLK", "BIKE"}

\* A package of the script holds the value Usual(k) at every position k but
\* at most one, which holds a value of Unusual(k): a float or a bool or a
\* str first, a bool or a str elsewhere.
Usual(k) == IF k = 1 THEN PyInt(20000) ELSE PyInt(1)
Unusual(k) ==
    IF k = 1 THEN {PyFloat(20000, 1), PyBool(TRUE), Str}
    ELSE {PyBool(TRUE), Str}

DataOfLen(len) ==
    {[k \in 1..len |-> Usual(k)]}
        \cup UNION {{[k \in 1..len |-> IF k = j THEN v ELSE Usual(k)] :
                        v \in Unusual(j)} : j \in 1..len}

\* Two packages that read_package must refuse.
BadPackages ==
    {<<"RUN", <<PyInt(1), PyInt(2)>> >>,
     <<"BIKE", <<PyInt(1), PyInt(2), PyInt(3)>> >>}

Packages ==
    {<<code, args>> : code \in Codes,
                      args \in UNION {DataOfLen(len) : len \in 0..MaxArgs}}
        \cup BadPackages

\* Readings of the method calls: sensor values around those of the
\* script's own packages (720, 1, 80, 25, 40; 15000, 1, 75; 9000, 1, 75, 180).
Actions == {PyInt(-15000), PyInt(0), PyInt(720), PyInt(9000), PyInt(15000),
            PyInt(20000), PyFloat(3, 2)}
Durations == {PyInt(0), PyInt(1), PyInt(2), PyFloat(1, 2)}
Weights == {PyInt(-75), PyInt(0), PyInt(75), PyInt(80), PyFloat(151, 2)}
Heights == {PyInt(180), PyInt(100)}
Lengths == {PyInt(25), PyInt(50)}
Counts == {PyInt(0), PyInt(20), PyInt(40)}

RunPackages(acts) ==
    {<<"RUN", <<a, d, w>> >> : a \in acts, d \in Durations, w \in Weights}
WlkPackages(acts, weights) ==
    {<<"WLK", <<a, d, w, h>> >> :
        a \in acts, d \in Durations, w \in weights, h \in Heights}
SwmPackages(acts) ==
    {<<"SWM", <<a, d, w, l, c>> >> :
        a \in acts, d \in Durations, w \in Weights, l \in Lengths,
        c \in Counts}

DistancePackages ==
    RunPackages(Actions) \cup WlkPackages(Actions, Weights)
        \cup SwmPackages(Actions)
\* The walking formula squares the speed: the numerator and denominator of
\* its exact value stay below 2^31 for these step counts and weights only.
CaloriesPackages ==
    RunPackages(Actions) \cup SwmPackages(Actions)
        \cup WlkPackages({PyInt(0), PyInt(20000)},
                         {w \in Weights : w.t = "int"})

(***************************************************************************)
(* The script: for workout_type, data in packages:                         *)
(*                 training = read_package(workout_type, data)             *)
(*                 main(training)                                          *)
(* The packages are drawn one by one as the loop reaches them.  An         *)
(* exception nobody catches ends the script with a traceback.              *)
(***************************************************************************)
Init ==
    /\ pc = "read_package"
    /\ n_read = 0
    /\ workout_type = ""
    /\ data = <<>>
    /\ training = NoTraining
    /\ raised = NoExc
    /\ stdout = <<>>
    /\ called = ""
    /\ ret = None

ReadPackage ==
    /\ pc = "read_package"
    /\ n_read < MaxPackages
    /\ \E p \in Packages :
        LET r == read_package(p[1], p[2])
        IN  /\ workout_type' = p[1]
            /\ data' = p[2]
            /\ n_read' = n_read + 1
            /\ IF IsExc(r)
               THEN /\ raised' = r
                    /\ pc' = "traceback"
                    /\ UNCHANGED training
               ELSE /\ training' = r
                    /\ pc' = "main"
                    /\ UNCHANGED raised
    /\ UNCHANGED <<stdout, called, ret>>

\* main(training): print(training.show_training_info())
main(self) == Printed(show_training_info(self))

Main ==
    /\ pc = "main"
    /\ LET line == main(training)
       IN  IF IsExc(line)
           THEN /\ raised' = line
                /\ pc' = "traceback"
                /\ UNCHANGED stdout
           ELSE /\ stdout' = Append(stdout, line)
                /\ pc' = "read_package"
                /\ UNCHANGED raised
    /\ UNCHANGED <<n_read, workout_type, data, training, called, ret>>

\* The list of packages is exhausted.
EndOfPackages ==
    /\ pc = "read_package"
    /\ pc' = "exit"
    /\ UNCHANGED <<n_read, workout_type, data, training, raised, stdout,
                   called, ret>>

Next == ReadPackage \/ Main \/ EndOfPackages

Spec == Init /\ [][Next]_vars

(***************************************************************************)
(* One method call on a reading that read_package built:                   *)
(* read_package(workout_type, data).method()                               *)
(* It leaves behind the reading built, the last function entered, the      *)
(* exception raised (if any) and the value returned (if any).              *)
(***************************************************************************)
GetDistance ==
    /\ pc = "call"
    /\ \E p \in DistancePackages :
        \E self \in {read_package(p[1], p[2])} :
        \E r \in {IF IsExc(self) THEN self ELSE get_distance(self)} :
            /\ workout_type' = p[1]
            /\ data' = p[2]
            /\ training' = IF IsExc(self) THEN NoTraining ELSE self
            /\ called' = IF IsExc(self) THEN "read_package" ELSE "get_distance"
            /\ raised' = IF IsExc(r) THEN r ELSE NoExc
            /\ ret' = IF IsExc(r) THEN None ELSE r
    /\ pc' = "returned"
    /\ UNCHANGED <<n_read, stdout>>

GetMeanSpeed ==
    /\ pc = "call"
    /\ \E p \in DistancePackages :
        \E self \in {read_package(p[1], p[2])} :
        \E r \in {IF IsExc(self) THEN self ELSE get_mean_speed(self)} :
            /\ workout_type' = p[1]
            /\ data' = p[2]
            /\ training' = IF IsExc(self) THEN NoTraining ELSE self
            /\ called' = IF IsExc(self) THEN "read_package" ELSE "get_mean_speed"
            /\ raised' = IF IsExc(r) THEN r ELSE NoExc
            /\ ret' = IF IsExc(r) THEN None ELSE r
    /\ pc' = "returned"
    /\ UNCHANGED <<n_read, stdout>>

GetSpentCalories ==
    /\ pc = "call"
    /\ \E p \in CaloriesPackages :
        \E self \in {read_package(p[1], p[2])} :
        \E r \in {IF IsExc(self) THEN self ELSE get_spent_calories(self)} :
            /\ workout_type' = p[1]
            /\ data' = p[2]
            /\ training' = IF IsExc(self) THEN NoTraining ELSE self
            /\ called' = IF IsExc(self) THEN "read_package" ELSE "get_spent_calories"
            /\ raised' = IF IsExc(r) THEN r ELSE NoExc
            /\ ret' = IF IsExc(r) THEN None ELSE r
    /\ pc' = "returned"
    /\ UNCHANGED <<n_read, stdout>>

ShowTrainingInfo ==
    /\ pc = "call"
    /\ \E p \in CaloriesPackages :
        \E self \in {read_package(p[1], p[2])} :
        \E r \in {IF IsExc(self) THEN self ELSE show_training_info(self)} :
            /\ workout_type' = p[1]
            /\ data' = p[2]
            /\ training' = IF IsExc(self) THEN NoTraining ELSE self
            /\ called' = IF IsExc(self) THEN "read_package" ELSE "show_training_info"
            /\ raised' = IF IsExc(r) THEN r ELSE NoExc
            /\ ret' = IF IsExc(r) THEN None ELSE r
    /\ pc' = "returned"
    /\ UNCHANGED <<n_read, stdout>>

\* main(read_package(workout_type, data)), the line it prints being kept in
\* ret.
CallMain ==
    /\ pc = "call"
    /\ \E p \in CaloriesPackages :
        \E self \in {read_package(p[1], p[2])} :
        \E r \in {IF IsExc(self) THEN self ELSE main(self)} :
            /\ workout_type' = p[1]
            /\ data' = p[2]
            /\ training' = IF IsExc(self) THEN NoTraining ELSE self
            /\ called' = IF IsExc(self) THEN "read_package" ELSE "main"
            /\ raised' = IF IsExc(r) THEN r ELSE NoExc
            /\ ret' = IF IsExc(r) THEN None ELSE r
    /\ pc' = "returned"
    /\ UNCHANGED <<n_read, stdout>>

InitCalls ==
    /\ pc = "call"
    /\ n_read = 0
    /\ workout_type = ""
    /\ data = <<>>
    /\ training = NoTraining
    /\ raised = NoExc
    /\ stdout = <<>>
    /\ called = ""
    /\ ret = None

NextCalls ==
    \/ GetDistance
    \/ GetMeanSpeed
    \/ GetSpentCalories
    \/ ShowTrainingInfo
    \/ CallMain

SpecCalls == InitCalls /\ [][NextCalls]_vars

(***************************************************************************)
(* What the claims speak of                                                *)
(***************************************************************************)
\* The three packages of the script's own list.
SWM_package ==
    <<"SWM", <<PyInt(720), PyInt(1), PyInt(80), PyInt(25), PyInt(40)>> >>
RUN_package == <<"RUN", <<PyInt(15000), PyInt(1), PyInt(75)>> >>
WLK_package == <<"WLK", <<PyInt(9000), PyInt(1), PyInt(75), PyInt(180)>> >>

Package == <<workout_type, data>>
KnownCodes == {"SWM", "RUN", "WLK"}
\* The number of fields a reading of the code requires.
FieldCount(code) ==
    CASE code = "RUN" -> 3
      [] code = "WLK" -> 4
      [] code = "SWM" -> 5
\* An integer or a float (a bool is neither: read_package refuses it).
IsNumeric(v) == v.t \in {"int", "float"}
AllNumeric(args) == \A k \in 1..Len(args) : IsNumeric(args[k])
UnknownWorkoutKind == Exc("ValueError", "unexpected workout type")
ArityMismatch == Exc("TypeError", "unexpected parameter count")
InvalidFieldType == Exc("TypeError", "unexpected data types")

\* The call of method returned (ret holds its value) on a reading of class cls.
Returned(method, cls) ==
    /\ pc = "returned"
    /\ called = method
    /\ raised = NoExc
    /\ training.t = cls
\* ret is the fraction num/den.
RetIs(num, den) == ret.n * den = num * ret.d

C2_AnyNonNumericValueIsRefused ==
    (/\ pc \in {"main", "traceback"}
     /\ workout_type \in KnownCodes
     /\ Len(data) = FieldCount(workout_type)) =>
        /\ ~AllNumeric(data) => pc = "traceback" /\ raised = InvalidFieldType
        /\ pc = "main" => AllNumeric(data)

\* C3: for a known code, read_package raises the parameter-count error
\* whenever the number of values differs from the required field count
\* (3 for RUN, 4 for WLK, 5 for SWM), whatever the values are, and builds no
\* reading.
C3_ArityMismatchIsRefused ==
    [][(/\ pc = "read_package"
        /\ n_read' = n_read + 1
        /\ workout_type' \in KnownCodes
        /\ Len(data') # FieldCount(workout_type')) =>
            /\ pc' = "traceback"
            /\ raised' = ArityMismatch
            /\ training' = training]_vars

C3_Witness ==
    /\ pc = "traceback"
    /\ Package = <<"RUN", <<PyInt(1), PyInt(2)>> >>
    /\ raised = ArityMismatch
    /\ training = NoTraining

\* C4: for a code that is none of SWM, RUN, WLK, read_package raises the
\* unknown-workout error for every data sequence (any length, any types of
\* values) and builds no reading: this check comes before those of the count
\* and of the types.
C4_UnknownCodeIsRefused ==
    [][(/\ pc = "read_package"
        /\ n_read' = n_read + 1
        /\ workout_type' \notin KnownCodes) =>
            /\ pc' = "traceback"
            /\ raised' = UnknownWorkoutKind
            /\ training' = training]_vars

C4_Witness ==
    /\ pc = "traceback"
    /\ Package = <<"BIKE", <<PyInt(1), PyInt(2), PyInt(3)>> >>
    /\ raised = UnknownWorkoutKind
    /\ training = NoTraining

\* C5 (as stated): every reading that read_package returns has a duration
\* greater than 0.
C5_ReadingHasPositiveDuration ==
    (pc = "returned" /\ training # NoTraining) => training.duration.n > 0

\* C6 (as stated): for every Running reading that read_package returns with
\* weight > 0 and duration > 0, the spent calories are >= 0.
C6_RunningCaloriesNonNegative ==
    (/\ Returned("get_spent_calories", "Running")
     /\ training.weight.n > 0
     /\ training.duration.n > 0) => ret.n >= 0

\* C6 (amended): for every Running reading that read_package returns with
\* action >= 0, weight > 0 and duration > 0, the spent calories are >= 0.
C6_RunningCaloriesNonNegativeForSteps ==
    (/\ Returned("get_spent_calories", "Running")
     /\ training.action.n >= 0
     /\ training.weight.n > 0
     /\ training.duration.n > 0) => ret.n >= 0

C6_Witness ==
    /\ Returned("get_spent_calories", "Running")
    /\ training.action.n > 0
    /\ training.weight.n > 0
    /\ training.duration.n > 0
    /\ ret.n > 0

\* C7 (as stated): the line printed for RUN [15000, 1, 75] shows distance
\* 9.750, mean speed 9.750 and calories 741.488.
C7_RunLineHas741 ==
    (Returned("main", "Running") /\ Package = RUN_package) =>
        ret.distance = 9750 /\ ret.speed = 9750 /\ ret.calories = 741488

\* C7 (amended): the line printed for RUN [15000, 1, 75] shows distance
\* 9.750, mean speed 9.750 and calories 797.805.
C7_RunLineHas797 ==
    (Returned("main", "Running") /\ Package = RUN_package) =>
        ret.distance = 9750 /\ ret.speed = 9750 /\ ret.calories = 797805

C7_Witness ==
    /\ Returned("main", "Running")
    /\ Package = RUN_package
    /\ ret.calories = 797805

\* C8: for every Running and every SportsWalking reading the distance is
\* action_count * 0.65 / 1000 and the mean speed is that distance divided by
\* the duration; WLK [9000, 1, 75, 180] has distance 5.850 km.
C8_StepDistanceAndSpeed ==
    /\ \A cls \in {"Running", "SportsWalking"} :
        /\ Returned("get_distance", cls) =>
              RetIs(training.action.n * 65, training.action.d * 100 * M_IN_KM)
        /\ Returned("get_mean_speed", cls) =>
              RetIs(training.action.n * 65 * training.duration.d,
                    training.action.d * 100 * M_IN_KM * training.duration.n)
    /\ (Returned("get_distance", "SportsWalking") /\ Package = WLK_package) =>
          Format3(ret).n = 5850

C8_Witness ==
    /\ Returned("get_distance", "SportsWalking")
    /\ Package = WLK_package
    /\ Format3(ret).n = 5850

\* C9 (as stated): the script prints lines only in main, one per package
\* and in the order of the packages, and a package that fails validation (an
\* unknown code, a wrong count of values, a value that is not an integer or
\* a float) never has a line printed for it.
C9_OneLinePerValidPackage ==
    [][/\ pc # "main" => stdout' = stdout
       /\ (pc = "main" /\ stdout' # stdout) =>
            /\ Len(stdout) = n_read - 1
            /\ stdout' = Append(stdout, main(training))
            /\ workout_type \in KnownCodes
            /\ Len(data) = FieldCount(workout_type)
            /\ AllNumeric(data)]_vars

====
